---- MODULE Spec2Model ----
(***************************************************************************)
(* Model of src/copilot.py: the Telegram bot that validates a contract     *)
(* address, asks the analyser service about it and formats the answer.     *)
(*                                                                         *)
(* Conventions.  A JSON value is a tagged record (JNull, JBool, ...).      *)
(* JSON numbers are integers.  A chat text is a sequence of one-character  *)
(* strings.  A reply is a sequence of lines and a line is a sequence of    *)
(* string parts (the pieces of the f-string that builds it); the text sent *)
(* is their concatenation, joined by newlines.  Non-ASCII literals of the  *)
(* source are written in ASCII: the em dash is "--", the backquote is "'", *)
(* the emoji are words.                                                    *)
(***************************************************************************)
EXTENDS Integers, Sequences, FiniteSets, TLC

VARIABLES
  TOKEN,        \* os.getenv("TELEGRAM_BOT_TOKEN"): "None", "" or a credential
  MCA_URL,      \* os.getenv("MCA_URL", "").rstrip("/")
  DEPLOY_HOOK,  \* the optional deploy-webhook URL of the /redeploy variant
  phase,        \* position of main(): "boot", "failed", "registered", "running", "terminated"
  handlers,     \* the handlers added to the application
  pc,           \* position of the handler in execution: "idle" with no update in
                \* hand, "done" when the handler of the update has ended
  event,        \* the inbound chat event being (or last) handled
  log,          \* effects of the handler, in order: replies sent and HTTP calls issued
  resp,         \* outcome of the handler's HTTP call
  data,         \* address_msg: what analyze_address returned
  ok,           \* status_cmd: what ping_analyzer returned
  raised        \* TRUE when an exception propagated out of the handler

vars == <<TOKEN, MCA_URL, DEPLOY_HOOK, phase, handlers, pc, event, log, resp, data, ok, raised>>

(***************************************************************************)
(* Bounds of the model.                                                    *)
(***************************************************************************)
MaxFactors == 7   \* longest factor list in an analyser body
MaxPad == 1       \* most whitespace characters before and after a chat text
MaxExtra == 1     \* hex digits more or fewer than ADDR_HEX_LEN in a chat text

(***************************************************************************)
(* JSON values as Python sees them after r.json().                         *)
(***************************************************************************)
JNull == [t |-> "null"]
JBool(b) == [t |-> "bool", b |-> b]
JNum(n) == [t |-> "num", n |-> n]
JStr(s) == [t |-> "str", s |-> s]
JList(l) == [t |-> "list", l |-> l]
JObj(o) == [t |-> "obj", o |-> o]

EmptyObj == JObj([k \in {} |-> JNull])
EmptyList == JList(<<>>)

IsObj(v) == v.t = "obj"
IsList(v) == v.t = "list"

\* Python truth value of a JSON value ('not data', 'x or {}', 'if liq:').
Truthy(v) ==
  CASE v.t = "null" -> FALSE
    [] v.t = "bool" -> v.b
    [] v.t = "num" -> v.n # 0
    [] v.t = "str" -> v.s # ""
    [] v.t = "list" -> v.l # <<>>
    [] v.t = "obj" -> DOMAIN v.o # {}

\* dict.get(key, default) on a value known to be a dict.
Get(v, key, default) == IF key \in DOMAIN v.o THEN v.o[key] ELSE default

\* 'v or default'
Or(v, default) == IF Truthy(v) THEN v ELSE default

Min(a, b) == IF a < b THEN a ELSE b

\* Keys of the analyser's objects in document order (dicts keep it).
KeyOrder == <<"score", "band", "token", "liquidity", "supply", "factors",
              "name", "symbol", "address", "dex", "pair", "lp_locked_pct", "locker",
              "total", "dead_wallet_pct", "top10_pct", "id", "impact", "evidence", "ok">>

RECURSIVE PyRepr(_), PyReprList(_), PyReprItems(_, _)
\* repr() of a JSON value, used by str() of lists and dicts.
PyRepr(v) ==
  CASE v.t = "null" -> "None"
    [] v.t = "bool" -> IF v.b THEN "True" ELSE "False"
    [] v.t = "num" -> ToString(v.n)
    [] v.t = "str" -> "'" \o v.s \o "'"
    [] v.t = "list" -> "[" \o PyReprList(v.l) \o "]"
    [] v.t = "obj" -> "{" \o PyReprItems(v.o, SelectSeq(KeyOrder, LAMBDA k : k \in DOMAIN v.o)) \o "}"
PyReprList(l) ==
  IF l = <<>> THEN ""
  ELSE IF Len(l) = 1 THEN PyRepr(l[1])
  ELSE PyRepr(l[1]) \o ", " \o PyReprList(Tail(l))
PyReprItems(o, keys) ==
  IF keys = <<>> THEN ""
  ELSE LET item == "'" \o keys[1] \o "': " \o PyRepr(o[keys[1]])
       IN IF Len(keys) = 1 THEN item ELSE item \o ", " \o PyReprItems(o, Tail(keys))

\* str() of a JSON value, as an f-string field '{value}' renders it.
PyStr(v) == IF v.t = "str" THEN v.s ELSE PyRepr(v)

(***************************************************************************)
(* Outcome of evaluating Python code: a value, or an exception raised.     *)
(***************************************************************************)
Ret(v) == [exc |-> FALSE, v |-> v]
Raise == [exc |-> TRUE]

(***************************************************************************)
(* Message literals (ASCII renderings of the source's texts).              *)
(***************************************************************************)
EMDASH == "--"
HELP_TEXT == "*Meme Coin Analyser* ... /status ... /help"
MSG_ONLINE == "Analyzer online"
MSG_UNREACHABLE == "Analyzer not reachable. Check MCA_URL on Railway."
MSG_FORMAT_HINT == "Please send a *BSC token address* (format: '0x...40 hex chars')."
MSG_ANALYZING == "Analyzing..."
MSG_SORRY == "Sorry, couldn't analyze. Check logs or try again."
MSG_NO_HOOK == "No deploy hook configured."
MSG_REDEPLOY_OK == "Redeploy triggered."
MSG_REDEPLOY_FAILED == "Redeploy failed."

\* A reply made of one literal.
Plain(msg) == << <<msg>> >>

FACTOR_LIMIT == 5   \* factors[:5]

\* Mutant of nice_pct: the None test is dropped, so None reaches the format
\* spec and raises like any other non-number.
nice_pct_nonone(v) ==
  CASE v.t = "num" -> Ret(ToString(v.n) \o ".00%")
    [] v.t = "bool" -> Ret(IF v.b THEN "1.00%" ELSE "0.00%")
    [] OTHER -> Raise

\* nice_pct(v): the em dash for None, else f"{v:.2f}%"; the format spec
\* accepts numbers (bool is an int) and raises for any other type.
nice_pct(v) ==
  CASE v.t = "null" -> Ret(EMDASH)
    [] v.t = "num" -> Ret(ToString(v.n) \o ".00%")
    [] v.t = "bool" -> Ret(IF v.b THEN "1.00%" ELSE "0.00%")
    [] OTHER -> Raise

\* "; ".join(f.get("evidence", [])[:1]) or ""
\* A list is sliced to its first element, which join() requires to be a str;
\* a str is sliced to its first character (the model's evidence strings have
\* at most one); None, numbers, bools and dicts cannot be sliced.
evidence_text(e) ==
  CASE e.t = "list" ->
         IF e.l = <<>> THEN Ret("")
         ELSE IF e.l[1].t = "str" THEN Ret(e.l[1].s) ELSE Raise
    [] e.t = "str" /\ Len(e.s) <= 1 -> Ret(e.s)
    [] OTHER -> Raise

\* '"green" if impact > 0 else ("red" if impact < 0 else "white")';
\* comparing None, a str, a list or a dict with 0 raises TypeError.
impact_emoji(impact) ==
  CASE impact.t = "num" ->
         Ret(IF impact.n > 0 THEN "GREEN" ELSE IF impact.n < 0 THEN "RED" ELSE "WHITE")
    [] impact.t = "bool" -> Ret(IF impact.b THEN "GREEN" ELSE "WHITE")
    [] OTHER -> Raise

\* Body of the loop 'for f in factors[:5]': the line appended for factor f.
factor_line(f) ==
  IF ~IsObj(f) THEN Raise
  ELSE LET emoji == impact_emoji(Get(f, "impact", JNum(0)))
           ev == evidence_text(Get(f, "evidence", EmptyList))
       IN IF emoji.exc \/ ev.exc THEN Raise
          ELSE Ret(<<emoji.v, " ", PyStr(Get(f, "id", JStr("?"))), " " \o EMDASH \o " ", ev.v>>)

\* Mutant of factor_lines: the slice [:5] is dropped.
factor_lines_all(l) ==
  LET n == Len(l)
      each == [i \in 1..n |-> factor_line(l[i])]
  IN IF \E i \in 1..n : each[i].exc THEN Raise
     ELSE Ret([i \in 1..n |-> each[i].v])

\* The factor lines of the reply, for a list of factors.
factor_lines(l) ==
  LET n == Min(Len(l), FACTOR_LIMIT)
      each == [i \in 1..n |-> factor_line(l[i])]
  IN IF \E i \in 1..n : each[i].exc THEN Raise
     ELSE Ret([i \in 1..n |-> each[i].v])

header_lines(d, token) ==
  << <<"*", PyStr(Get(token, "name", JStr("?"))), "* (", PyStr(Get(token, "symbol", JStr("?"))), ")">>,
     <<"'", PyStr(Get(token, "address", JStr("?"))), "'">>,
     <<>>,
     <<"*Score:* ", PyStr(Get(d, "score", JStr("?"))), "  .  *Band:* ", PyStr(Get(d, "band", JStr("?")))>>,
     <<>>,
     <<"*Key factors:*">> >>

liquidity_lines(liq) ==
  << <<>>,
     <<"*Liquidity:*">>,
     <<"DEX: ", PyStr(Get(liq, "dex", JStr("?")))>>,
     <<"Pair: '", PyStr(Get(liq, "pair", JStr(EMDASH))), "'">>,
     <<"LP locked: ", PyStr(Get(liq, "lp_locked_pct", JNum(0))), "% via ", PyStr(Get(liq, "locker", JStr(EMDASH)))>> >>

supply_lines(supply, dead, top10) ==
  << <<>>,
     <<"*Supply:*">>,
     <<"Total: ", PyStr(Get(supply, "total", JStr(EMDASH)))>>,
     <<"Dead wallet: ", dead>>,
     <<"Top10: ", top10>> >>

\* address_msg from 'token = data.get("token", {})' to the "\n".join(lines):
\* the lines of the formatted reply, or the exception the code raises.
format_result(d) ==
  IF ~IsObj(d) THEN Raise
  ELSE
    LET token == Get(d, "token", EmptyObj)
        liq == Or(Get(d, "liquidity", EmptyObj), EmptyObj)
        supply == Or(Get(d, "supply", EmptyObj), EmptyObj)
        factors == Or(Get(d, "factors", EmptyList), EmptyList)
    IN IF ~IsObj(token) THEN Raise
       ELSE IF ~IsList(factors) THEN Raise
       ELSE LET fl == factor_lines(factors.l)
            IN IF fl.exc THEN Raise
               ELSE IF Truthy(liq) /\ ~IsObj(liq) THEN Raise
               ELSE IF Truthy(supply) /\ ~IsObj(supply) THEN Raise
               ELSE LET ll == IF Truthy(liq) THEN liquidity_lines(liq) ELSE <<>>
                        dead == IF Truthy(supply) THEN nice_pct(Get(supply, "dead_wallet_pct", JNull)) ELSE Ret("")
                        top10 == IF Truthy(supply) THEN nice_pct(Get(supply, "top10_pct", JNull)) ELSE Ret("")
                    IN IF dead.exc \/ top10.exc THEN Raise
                       ELSE Ret(header_lines(d, token) \o fl.v \o ll
                                \o (IF Truthy(supply) THEN supply_lines(supply, dead.v, top10.v) ELSE <<>>))

(***************************************************************************)
(* HTTP outcomes and the analyser client.                                  *)
(***************************************************************************)
Malformed == [t |-> "malformed"]   \* a body that r.json() cannot parse

\* Mutant of ping_try: the truth value of 'ok' instead of 'is True'.
ping_try_truthy(r) ==
  IF r.kind # "http" THEN Raise
  ELSE IF r.status # 200 THEN Ret(FALSE)
  ELSE IF r.body.t = "malformed" THEN Raise
  ELSE IF ~IsObj(r.body) THEN Raise
  ELSE Ret(Truthy(Get(r.body, "ok", JNull)))

\* The try block of ping_analyzer.
ping_try(r) ==
  IF r.kind # "http" THEN Raise
  ELSE IF r.status # 200 THEN Ret(FALSE)
  ELSE IF r.body.t = "malformed" THEN Raise
  ELSE IF ~IsObj(r.body) THEN Raise
  ELSE LET v == Get(r.body, "ok", JNull) IN Ret(v.t = "bool" /\ v.b)

\* ping_analyzer() once the GET has had outcome r (unused when url is empty).
ping_analyzer(url, r) ==
  IF url = "" THEN Ret(FALSE)
  ELSE LET t == ping_try(r) IN IF t.exc THEN Ret(FALSE) ELSE t

\* Mutant of analyze_try: the body is returned whatever the status.
analyze_try_nostatus(r) ==
  IF r.kind # "http" THEN Raise
  ELSE IF r.body.t = "malformed" THEN Raise ELSE Ret(r.body)

\* The try block of analyze_address.
analyze_try(r) ==
  IF r.kind # "http" THEN Raise
  ELSE IF r.status = 200
       THEN (IF r.body.t = "malformed" THEN Raise ELSE Ret(r.body))
       ELSE Ret(JNull)

\* analyze_address(addr) once the POST has had outcome r; None is JNull.
analyze_address(r) ==
  LET t == analyze_try(r) IN IF t.exc THEN Ret(JNull) ELSE t

(***************************************************************************)
(* The address validator: text.strip() and ETH_ADDR_RE.fullmatch.          *)
(***************************************************************************)
WS == {" ", "\n", "\t"}   \* whitespace that str.strip() removes
HexChars == {"0", "1", "2", "3", "4", "5", "6", "7", "8", "9",
             "a", "b", "c", "d", "e", "f", "A", "B", "C", "D", "E", "F"}
ADDR_HEX_LEN == 40        \* the {40} of ETH_ADDR_RE

RECURSIVE lstrip(_), rstrip(_)
lstrip(s) == IF s # <<>> /\ Head(s) \in WS THEN lstrip(Tail(s)) ELSE s
rstrip(s) == IF s # <<>> /\ s[Len(s)] \in WS THEN rstrip(SubSeq(s, 1, Len(s) - 1)) ELSE s
strip(s) == rstrip(lstrip(s))

RECURSIVE MatchHex(_, _, _)
\* [a-fA-F0-9]{n} matched at position i of s: the position after the match,
\* or 0 when the match fails.
MatchHex(s, i, n) ==
  IF n = 0 THEN i
  ELSE IF i <= Len(s) /\ s[i] \in HexChars THEN MatchHex(s, i + 1, n - 1)
  ELSE 0

\* Mutant of ETH_ADDR_RE: a prefix match (no end anchor).
ETH_ADDR_RE_prefix(s) ==
  /\ Len(s) >= 2
  /\ s[1] = "0"
  /\ s[2] = "x"
  /\ MatchHex(s, 3, ADDR_HEX_LEN) # 0

\* Mutant of ETH_ADDR_RE: the pattern compiled with re.IGNORECASE.
ETH_ADDR_RE_ignorecase(s) ==
  /\ Len(s) >= 2
  /\ s[1] = "0"
  /\ s[2] \in {"x", "X"}
  /\ MatchHex(s, 3, ADDR_HEX_LEN) = Len(s) + 1

\* ETH_ADDR_RE.fullmatch(s) for ^0x[a-fA-F0-9]{40}$
ETH_ADDR_RE(s) ==
  /\ Len(s) >= 2
  /\ s[1] = "0"
  /\ s[2] = "x"
  /\ MatchHex(s, 3, ADDR_HEX_LEN) = Len(s) + 1

(***************************************************************************)
(* Inputs: chat texts.                                                     *)
(***************************************************************************)
RECURSIVE SeqsUpTo(_, _)
\* The sequences over S of length at most n.
SeqsUpTo(S, n) ==
  IF n = 0 THEN {<<>>}
  ELSE LET shorter == SeqsUpTo(S, n - 1)
       IN shorter \cup {<<c>> \o t : c \in S, t \in {u \in shorter : Len(u) = n - 1}}

Pads == SeqsUpTo({" "}, MaxPad) \cup {<<"\n">>}
Prefixes == {<<"0", "x">>, <<"0", "X">>, <<"x">>}
Fills == {<<"0">>, <<"a", "F", "9", "c">>}
BadChars == {"Z", " ", "x"}

\* n digits drawn cyclically from fill, the one at position bad (if any)
\* replaced by ch.
Digits(n, fill, bad, ch) ==
  [i \in 1..n |-> IF i = bad THEN ch ELSE fill[((i - 1) % Len(fill)) + 1]]

Texts ==
  {l \o pre \o Digits(n, fill, bad, ch) \o r :
     l \in Pads, r \in Pads, pre \in Prefixes,
     n \in (ADDR_HEX_LEN - MaxExtra)..(ADDR_HEX_LEN + MaxExtra),
     fill \in Fills,
     bad \in {0, 1, ADDR_HEX_LEN, ADDR_HEX_LEN + 1}, ch \in BadChars}
  \cup {<<"0", "x", "Z", "Z", "Z">>, <<" ">>, <<"\t", "h", "i", "\t">>, <<"0", "x">>}

(***************************************************************************)
(* Inputs: bodies of the analyser's answers.                               *)
(***************************************************************************)
Restrict(v, K) == JObj([k \in K \cap DOMAIN v.o |-> v.o[k]])
With(v, key, x) == JObj([k \in DOMAIN v.o \cup {key} |-> IF k = key THEN x ELSE v.o[k]])
ReplaceAt(l, p, x) == [i \in 1..Len(l) |-> IF i = p THEN x ELSE l[i]]

FullToken == JObj([name |-> JStr("Foo"), symbol |-> JStr("FOO"), address |-> JStr("0xabc")])
FullLiq == JObj([dex |-> JStr("Pancake"), pair |-> JStr("0xpair"),
                 lp_locked_pct |-> JNum(95), locker |-> JStr("PinkLock")])
FullSupply == JObj([total |-> JNum(1000), dead_wallet_pct |-> JNum(12), top10_pct |-> JNum(40)])
Factor(i) ==
  JObj([id |-> JStr("f" \o ToString(i)),
        impact |-> JNum((i % 3) - 1),
        evidence |-> JList(IF i % 4 = 0 THEN <<>>
                           ELSE IF i % 2 = 0 THEN <<JStr("e" \o ToString(i))>>
                           ELSE <<JStr("e" \o ToString(i)), JStr("more")>>)])
Factors(n) == JList([i \in 1..n |-> Factor(i)])
FullData(n) ==
  JObj([score |-> JNum(87), band |-> JStr("A"), token |-> FullToken,
        liquidity |-> FullLiq, supply |-> FullSupply, factors |-> Factors(n)])

\* Values of the wrong shape for any position.
OddValues ==
  {JNull, JBool(TRUE), JBool(FALSE), JNum(0), JNum(5), JNum(-3), JStr(""), JStr("s"),
   EmptyList, JList(<<JNum(1), JStr("a")>>), EmptyObj, JObj([ok |-> JBool(TRUE)])}

Variants(full) ==
  {Restrict(full, K) : K \in SUBSET DOMAIN full.o}
  \cup OddValues
  \cup {With(full, k, x) : k \in DOMAIN full.o, x \in OddValues}

FactorsVariants ==
  {Factors(n) : n \in 0..MaxFactors}
  \cup OddValues
  \cup {JList(ReplaceAt(Factors(MaxFactors).l, p, x)) :
          p \in {1, FACTOR_LIMIT, FACTOR_LIMIT + 1}, x \in Variants(Factor(9))}

BaseData == FullData(2)

AnalyzeBodies ==
  OddValues
  \cup {Restrict(BaseData, K) : K \in SUBSET DOMAIN BaseData.o}
  \cup {With(BaseData, "score", x) : x \in OddValues}
  \cup {With(BaseData, "band", x) : x \in OddValues}
  \cup {With(BaseData, "token", x) : x \in Variants(FullToken)}
  \cup {With(BaseData, "liquidity", x) : x \in Variants(FullLiq)}
  \cup {With(BaseData, "supply", x) : x \in Variants(FullSupply)}
  \cup {With(BaseData, "factors", x) : x \in FactorsVariants}

HealthBodies ==
  OddValues
  \cup {JObj([ok |-> x]) : x \in OddValues}
  \cup {JObj([ok |-> JBool(TRUE), score |-> JNum(1)]), JList(<<JBool(TRUE)>>)}

(***************************************************************************)
(* Inputs: outcomes of an HTTP call.                                       *)
(***************************************************************************)
Statuses == {200, 201, 202, 404, 500}
Http(status, body) == [kind |-> "http", err |-> "", status |-> status, body |-> body]
Failure(err) == [kind |-> "error", err |-> err, status |-> 0, body |-> Malformed]
NoResp == [kind |-> "none", err |-> "", status |-> 0, body |-> Malformed]

\* httpx raises for a connection error, for a timeout, and for a URL with no
\* scheme (which is what f"{MCA_URL}/analyze" is when MCA_URL is empty).
Failures(url) ==
  IF url = "" THEN {Failure("unsupported_protocol")}
  ELSE {Failure("connect"), Failure("timeout")}

HealthResponses(url) ==
  Failures(url) \cup
  (IF url = "" THEN {}
   ELSE {Http(s, b) : s \in Statuses, b \in HealthBodies \cup {Malformed}})

AnalyzeResponses(url) ==
  Failures(url) \cup
  (IF url = "" THEN {}
   ELSE {Http(200, b) : b \in AnalyzeBodies \cup {Malformed}}
        \cup {Http(s, b) : s \in Statuses \ {200}, b \in {Malformed, BaseData, JNull}})

(***************************************************************************)
(* Inbound chat events.                                                    *)
(***************************************************************************)
Command(name) == [kind |-> "command", name |-> name, text |-> <<>>]
TextMsg(text) == [kind |-> "text", name |-> "", text |-> text]
Photo == [kind |-> "photo", name |-> "", text |-> <<>>]
NoEvent == [kind |-> "none", name |-> "", text |-> <<>>]

Events ==
  {Command(c) : c \in {"start", "help", "status", "redeploy", "settings"}}
  \cup {TextMsg(t) : t \in Texts}
  \cup {Photo}

\* Effects a handler leaves in the log.
Reply(lines) == [op |-> "reply", lines |-> lines]
Call(method, url, addr) == [op |-> "http", method |-> method, url |-> url, addr |-> addr]

NONE == "None"                  \* an unset environment variable
Credentials == {NONE, "", "123:abc"}
Urls == {"", "https://mca.example"}
HookUrls == {"", "https://deploy.example/hook"}

\* The handlers main() adds: three CommandHandlers and the MessageHandler
\* for filters.TEXT & ~filters.COMMAND.
MainHandlers == {"start", "help", "status", "text"}
\* The CommandHandler of the variant that has /redeploy.
RedeployHandlers == {"redeploy"}

\* The handler the application runs for event e: a command goes to the
\* CommandHandler of its name, any other text to the MessageHandler, and
\* nothing else is handled.
Route(hs, e) ==
  IF e.kind = "command" /\ e.name \in hs THEN e.name \o "_cmd"
  ELSE IF e.kind = "text" /\ "text" \in hs THEN "address_msg"
  ELSE "done"

Init ==
  /\ TOKEN \in Credentials
  /\ MCA_URL \in Urls
  /\ DEPLOY_HOOK \in HookUrls
  /\ phase = "boot"
  /\ handlers = {}
  /\ pc = "idle"
  /\ event = NoEvent
  /\ log = <<>>
  /\ resp = NoResp
  /\ data = JNull
  /\ ok = FALSE
  /\ raised = FALSE

config == <<TOKEN, MCA_URL, DEPLOY_HOOK>>
turn == <<event, log, resp, data, ok, raised>>

\* Mutant of main: the credential is not checked.
main_nocheck ==
  /\ phase = "boot"
  /\ phase' = "registered"
  /\ handlers' = MainHandlers \cup RedeployHandlers
  /\ UNCHANGED <<config, pc, turn>>

\* main() up to the last add_handler: fatal without a credential.
main ==
  /\ phase = "boot"
  /\ IF TOKEN = NONE \/ TOKEN = ""
     THEN phase' = "failed" /\ UNCHANGED handlers
     ELSE phase' = "registered" /\ handlers' = MainHandlers \cup RedeployHandlers
  /\ UNCHANGED <<config, pc, turn>>

\* main() from app.initialize() to the wait on asyncio.Event().
start_polling ==
  /\ phase = "registered"
  /\ phase' = "running"
  /\ UNCHANGED <<config, handlers, pc, turn>>

\* KeyboardInterrupt ends asyncio.run(main()): the running tasks are
\* cancelled and the process exits.
Terminate ==
  /\ phase = "running"
  /\ phase' = "terminated"
  /\ pc' = "idle"
  /\ event' = NoEvent
  /\ log' = <<>>
  /\ resp' = NoResp
  /\ data' = JNull
  /\ ok' = FALSE
  /\ raised' = FALSE
  /\ UNCHANGED <<config, handlers>>

\* The application takes the next update and selects its handler; an update
\* no handler accepts is dropped.
Dispatch(e) ==
  /\ phase = "running"
  /\ pc = "idle"
  /\ event' = e
  /\ pc' = Route(handlers, e)
  /\ UNCHANGED <<config, phase, handlers, log, resp, data, ok, raised>>

\* The handler has ended (returned or raised; the application logs an
\* exception of a handler and goes on): the turn's locals are gone and the
\* application waits for the next update.
Finish ==
  /\ phase = "running"
  /\ pc = "done"
  /\ pc' = "idle"
  /\ event' = NoEvent
  /\ log' = <<>>
  /\ resp' = NoResp
  /\ data' = JNull
  /\ ok' = FALSE
  /\ raised' = FALSE
  /\ UNCHANGED <<config, phase, handlers>>

start_cmd ==
  /\ phase = "running"
  /\ pc = "start_cmd"
  /\ log' = Append(log, Reply(Plain(HELP_TEXT)))
  /\ pc' = "done"
  /\ UNCHANGED <<config, phase, handlers, event, resp, data, ok, raised>>

help_cmd ==
  /\ phase = "running"
  /\ pc = "help_cmd"
  /\ log' = Append(log, Reply(Plain(HELP_TEXT)))
  /\ pc' = "done"
  /\ UNCHANGED <<config, phase, handlers, event, resp, data, ok, raised>>

\* status_cmd: ok = await ping_analyzer()
status_cmd ==
  /\ phase = "running"
  /\ pc = "status_cmd"
  /\ \E r \in HealthResponses(MCA_URL) :
       LET res == ping_analyzer(MCA_URL, r)
       IN /\ resp' = IF MCA_URL = "" THEN NoResp ELSE r
          /\ log' = IF MCA_URL = "" THEN log
                    ELSE Append(log, Call("GET", MCA_URL \o "/health", <<>>))
          /\ IF res.exc
             THEN raised' = TRUE /\ pc' = "done" /\ UNCHANGED ok
             ELSE ok' = res.v /\ pc' = "status_reply" /\ UNCHANGED raised
  /\ UNCHANGED <<config, phase, handlers, event, data>>

\* status_cmd: the reply chosen by ok
status_reply ==
  /\ phase = "running"
  /\ pc = "status_reply"
  /\ log' = Append(log, Reply(Plain(IF ok THEN MSG_ONLINE ELSE MSG_UNREACHABLE)))
  /\ pc' = "done"
  /\ UNCHANGED <<config, phase, handlers, event, resp, data, ok, raised>>

\* address_msg up to the acknowledgement: strip, validate, hint or "Analyzing".
address_msg ==
  /\ phase = "running"
  /\ pc = "address_msg"
  /\ LET text == strip(event.text)
     IN IF ~ETH_ADDR_RE(text)
        THEN /\ log' = Append(log, Reply(Plain(MSG_FORMAT_HINT)))
             /\ pc' = "done"
        ELSE /\ log' = Append(log, Reply(Plain(MSG_ANALYZING)))
             /\ pc' = "address_analyze"
  /\ UNCHANGED <<config, phase, handlers, event, resp, data, ok, raised>>

\* address_msg: data = await analyze_address(text)
address_analyze ==
  /\ phase = "running"
  /\ pc = "address_analyze"
  /\ \E r \in AnalyzeResponses(MCA_URL) :
       LET res == analyze_address(r)
       IN /\ resp' = r
          /\ log' = Append(log, Call("POST", MCA_URL \o "/analyze", strip(event.text)))
          /\ IF res.exc
             THEN raised' = TRUE /\ pc' = "done" /\ UNCHANGED data
             ELSE data' = res.v /\ pc' = "address_reply" /\ UNCHANGED raised
  /\ UNCHANGED <<config, phase, handlers, event, ok>>

\* address_msg from 'if not data' to the final reply_text.
address_reply ==
  /\ phase = "running"
  /\ pc = "address_reply"
  /\ IF ~Truthy(data)
     THEN log' = Append(log, Reply(Plain(MSG_SORRY))) /\ UNCHANGED raised
     ELSE LET lines == format_result(data)
          IN IF lines.exc
             THEN raised' = TRUE /\ UNCHANGED log
             ELSE log' = Append(log, Reply(lines.v)) /\ UNCHANGED raised
  /\ pc' = "done"
  /\ UNCHANGED <<config, phase, handlers, event, resp, data, ok>>

\* Mutant of redeploy_cmd: the webhook is called without looking at its URL.
redeploy_cmd_nocheck ==
  /\ phase = "running"
  /\ pc = "redeploy_cmd"
  /\ \E r \in Failures(DEPLOY_HOOK) \cup {Http(s, EmptyObj) : s \in Statuses} :
       /\ resp' = r
       /\ log' = log \o <<Call("POST", DEPLOY_HOOK, <<>>),
                          Reply(Plain(IF r.kind = "http" /\ r.status \in {200, 201, 202}
                                      THEN MSG_REDEPLOY_OK ELSE MSG_REDEPLOY_FAILED))>>
  /\ pc' = "done"
  /\ UNCHANGED <<config, phase, handlers, event, data, ok, raised>>

\* /redeploy: a configuration error without a webhook URL, else
\* triggerRedeploy() (success is a status in {200, 201, 202}) and its outcome.
redeploy_cmd ==
  /\ phase = "running"
  /\ pc = "redeploy_cmd"
  /\ IF DEPLOY_HOOK = ""
     THEN /\ log' = Append(log, Reply(Plain(MSG_NO_HOOK)))
          /\ UNCHANGED resp
     ELSE \E r \in Failures(DEPLOY_HOOK) \cup {Http(s, EmptyObj) : s \in Statuses} :
            /\ resp' = r
            /\ log' = log \o <<Call("POST", DEPLOY_HOOK, <<>>),
                               Reply(Plain(IF r.kind = "http" /\ r.status \in {200, 201, 202}
                                           THEN MSG_REDEPLOY_OK ELSE MSG_REDEPLOY_FAILED))>>
  /\ pc' = "done"
  /\ UNCHANGED <<config, phase, handlers, event, data, ok, raised>>

Next ==
  \/ main
  \/ start_polling
  \/ Terminate
  \/ \E e \in Events : Dispatch(e)
  \/ Finish
  \/ start_cmd
  \/ help_cmd
  \/ status_cmd
  \/ status_reply
  \/ address_msg
  \/ address_analyze
  \/ address_reply
  \/ redeploy_cmd

Spec == Init /\ [][Next]_vars

(***************************************************************************)
(* Vocabulary of the properties.                                           *)
(***************************************************************************)
\* s is '0x' followed by exactly 40 hexadecimal digits.
WellFormedAddress(s) ==
  /\ Len(s) = 42
  /\ s[1] = "0"
  /\ s[2] = "x"
  /\ \A i \in 3..42 : s[i] \in HexChars

\* t is a well-formed address between leading and trailing whitespace.
TrimsToAddress(t) ==
  \E i \in 1..Len(t) : \E j \in i..Len(t) :
    /\ \A k \in 1..(i - 1) : t[k] \in WS
    /\ \A k \in (j + 1)..Len(t) : t[k] \in WS
    /\ WellFormedAddress(SubSeq(t, i, j))

\* The part of t left when the whitespace at both ends is removed.
Trimmed(t) ==
  LET inner == {k \in 1..Len(t) : t[k] \notin WS}
  IN IF inner = {} THEN <<>>
     ELSE SubSeq(t, CHOOSE k \in inner : \A m \in inner : k <= m,
                    CHOOSE k \in inner : \A m \in inner : k >= m)

TextTurn == event.kind = "text"
IsReply(e, msg) == e.op = "reply" /\ e.lines = Plain(msg)
IsAnalyzeCall(e) ==
  /\ e.op = "http"
  /\ e.method = "POST"
  /\ e.url = MCA_URL \o "/analyze"
  /\ e.addr = Trimmed(event.text)
NoCalls == \A i \in 1..Len(log) : log[i].op # "http"

\* The HTTP call completed with status 200 and a body that parses.
Parsed200 == resp.kind = "http" /\ resp.status = 200 /\ resp.body.t # "malformed"

\* The handler of a text turn has ended with a formatted result as its reply.
FormattedReplySent ==
  /\ pc = "done"
  /\ TextTurn
  /\ Len(log) = 3
  /\ log[3].op = "reply"
  /\ Len(log[3].lines) >= 6

(***************************************************************************)
(* C1: for a text that trims to a valid address, address_msg sends the     *)
(* 'Analyzing' acknowledgement, then issues exactly one analyze call, then *)
(* sends exactly one final reply: the error message if analyze returned    *)
(* None, the formatted result for every parsed HTTP-200 body it returned.  *)
(***************************************************************************)
C1_AddressSteps ==
  (pc = "done" /\ TextTurn /\ TrimsToAddress(event.text)) =>
    /\ Len(log) = 3
    /\ IsReply(log[1], MSG_ANALYZING)
    /\ IsAnalyzeCall(log[2])
    /\ log[3].op = "reply"
    /\ IF Parsed200 /\ resp.body # JNull
       THEN Len(log[3].lines) >= 6
       ELSE log[3].lines = Plain(MSG_SORRY)

(***************************************************************************)
(* C2: for a text that does not trim to a valid address, address_msg sends *)
(* exactly one reply, the format hint, issues no HTTP call and sends no    *)
(* 'Analyzing' acknowledgement.                                            *)
(***************************************************************************)
C2_InvalidGetsHintOnly ==
  (TextTurn /\ ~TrimsToAddress(event.text)) =>
    /\ pc \in {"address_msg", "done"}
    /\ pc = "address_msg" => log = <<>>
    /\ pc = "done" => (Len(log) = 1 /\ IsReply(log[1], MSG_FORMAT_HINT))
    /\ resp = NoResp

C2_Witness ==
  /\ pc = "done"
  /\ event = TextMsg(<<"0", "x", "Z", "Z", "Z">>)
  /\ log = <<Reply(Plain(MSG_FORMAT_HINT))>>

(***************************************************************************)
(* C3: whatever event is dispatched to the start, help, status or free     *)
(* text handler and whatever the analyser call yields, no exception        *)
(* propagates out of the handler and its execution ends with a reply.      *)
(***************************************************************************)
C3_HandlersNeverRaise ==
  (pc = "done" /\ (TextTurn \/ event \in {Command("start"), Command("help"), Command("status")})) =>
    /\ ~raised
    /\ log # <<>>
    /\ log[Len(log)].op = "reply"

(***************************************************************************)
(* C4: the free-text handler accepts a text if and only if the text, with  *)
(* leading and trailing whitespace removed, is '0x' followed by exactly 40 *)
(* characters of [0-9a-fA-F].                                              *)
(***************************************************************************)
C4_ValidatorAccepts ==
  (TextTurn /\ pc # "address_msg") =>
    /\ log # <<>>
    /\ IsReply(log[1], MSG_ANALYZING) <=> TrimsToAddress(event.text)
    /\ IsReply(log[1], MSG_FORMAT_HINT) <=> ~TrimsToAddress(event.text)

C4_Witness ==
  /\ pc = "address_analyze"
  /\ event = TextMsg(<<" ">> \o <<"0", "x">> \o [i \in 1..40 |-> "0"] \o <<"\n">>)
  /\ IsReply(log[1], MSG_ANALYZING)

(***************************************************************************)
(* C5: ping_analyzer never raises and returns true if and only if an       *)
(* analyser URL is configured, the health request completed with status    *)
(* 200 and the parsed body is an object whose 'ok' is literally true.      *)
(***************************************************************************)
C5_PingTrueIffOk ==
  (event = Command("status") /\ pc \in {"status_reply", "done"}) =>
    /\ ~raised
    /\ ok <=> /\ MCA_URL # ""
              /\ Parsed200
              /\ resp.body.t = "obj"
              /\ "ok" \in DOMAIN resp.body.o
              /\ resp.body.o["ok"].t = "bool"
              /\ resp.body.o["ok"].b

C5_Witness ==
  /\ event = Command("status")
  /\ pc = "done"
  /\ resp = Http(200, JObj([ok |-> JBool(TRUE)]))
  /\ ok
  /\ IsReply(log[2], MSG_ONLINE)

(***************************************************************************)
(* C6: analyze_address never raises: it returns the parsed body when the   *)
(* POST completed with status 200 and the body parses, and None for every  *)
(* other status, every network error or timeout and every unparsable body. *)
(***************************************************************************)
C6_AnalyzeReturns ==
  [][(pc = "address_analyze" /\ phase' = "running") =>
       /\ pc' = "address_reply"
       /\ ~raised'
       /\ data' = IF resp'.kind = "http" /\ resp'.status = 200 /\ resp'.body.t # "malformed"
                  THEN resp'.body ELSE JNull]_vars

C6_Witness ==
  /\ pc = "address_reply"
  /\ resp = Http(404, BaseData)
  /\ data = JNull

(***************************************************************************)
(* C7: a /redeploy command with no deploy-webhook URL configured gets the  *)
(* configuration-error reply and causes no outbound HTTP call.             *)
(***************************************************************************)
C7_RedeployWithoutHook ==
  (event = Command("redeploy") /\ DEPLOY_HOOK = "") =>
    /\ NoCalls
    /\ resp = NoResp
    /\ pc = "done" => log = <<Reply(Plain(MSG_NO_HOOK))>>

C7_Witness ==
  /\ event = Command("redeploy")
  /\ DEPLOY_HOOK = ""
  /\ pc = "done"
  /\ log = <<Reply(Plain(MSG_NO_HOOK))>>

(***************************************************************************)
(* C8: the formatted reply for a result with n factors has exactly         *)
(* min(n, 5) factor lines, and they are the first min(n, 5) factors of the *)
(* result in their order, right after the 'Key factors' line.              *)
(***************************************************************************)
IsFactorLine(line) == Len(line) = 5 /\ line[2] = " " /\ line[4] = " -- "
FactorLinesOf(lines) == SelectSeq(lines, IsFactorLine)

\* The factors of the result in hand (none when the field is missing or
\* is not a list).
ResultFactors ==
  IF data.t = "obj" /\ "factors" \in DOMAIN data.o /\ data.o["factors"].t = "list"
  THEN data.o["factors"].l
  ELSE <<>>

Missing(v, key) == key \notin DOMAIN v.o
IdText(f) == IF Missing(f, "id") THEN "?" ELSE PyStr(f.o["id"])

C8_FirstFiveFactors ==
  FormattedReplySent =>
    LET lines == log[3].lines
        fl == FactorLinesOf(lines)
        n == Len(ResultFactors)
        m == IF n < 5 THEN n ELSE 5
    IN /\ Len(fl) = m
       /\ fl = SubSeq(lines, 7, 6 + m)
       /\ \A i \in 1..m : fl[i][3] = IdText(ResultFactors[i])

C8_Witness ==
  /\ FormattedReplySent
  /\ data = FullData(7)
  /\ Len(FactorLinesOf(log[3].lines)) = 5
  /\ log[3].lines[11] = <<"GREEN", " ", "f5", " -- ", "e5">>

(***************************************************************************)
(* C9 as stated: in the formatted reply every missing field (score, band,  *)
(* token name/symbol/address, liquidity dex/pair/lp_locked_pct/locker,     *)
(* supply total/dead_wallet_pct/top10_pct, factor id) is rendered as one   *)
(* of the placeholders '?', the em dash or 'n/a'.                          *)
(***************************************************************************)
Placeholders == {"?", "--", "n/a"}

ResultToken == IF Missing(data, "token") THEN EmptyObj ELSE data.o["token"]
Shown(key) ==
  /\ ~Missing(data, key)
  /\ data.o[key].t = "obj"
  /\ DOMAIN data.o[key].o # {}
LiqBase == 6 + Len(FactorLinesOf(log[3].lines))
SupplyBase == LiqBase + (IF Shown("liquidity") THEN 5 ELSE 0)

\* Every missing field other than lp_locked_pct has a placeholder in its place.
PlaceholdersForMissing ==
  LET lines == log[3].lines
      liq == data.o["liquidity"]
      supply == data.o["supply"]
  IN /\ Missing(ResultToken, "name") => lines[1][2] \in Placeholders
     /\ Missing(ResultToken, "symbol") => lines[1][4] \in Placeholders
     /\ Missing(ResultToken, "address") => lines[2][2] \in Placeholders
     /\ Missing(data, "score") => lines[4][2] \in Placeholders
     /\ Missing(data, "band") => lines[4][4] \in Placeholders
     /\ \A i \in 1..(LiqBase - 6) :
          Missing(ResultFactors[i], "id") => lines[6 + i][3] \in Placeholders
     /\ Shown("liquidity") =>
          /\ Missing(liq, "dex") => lines[LiqBase + 3][2] \in Placeholders
          /\ Missing(liq, "pair") => lines[LiqBase + 4][2] \in Placeholders
          /\ Missing(liq, "locker") => lines[LiqBase + 5][4] \in Placeholders
     /\ Shown("supply") =>
          /\ Missing(supply, "total") => lines[SupplyBase + 3][2] \in Placeholders
          /\ Missing(supply, "dead_wallet_pct") => lines[SupplyBase + 4][2] \in Placeholders
          /\ Missing(supply, "top10_pct") => lines[SupplyBase + 5][2] \in Placeholders

C9_AllMissingArePlaceholders ==
  FormattedReplySent =>
    /\ PlaceholdersForMissing
    /\ (Shown("liquidity") /\ Missing(data.o["liquidity"], "lp_locked_pct")) =>
         log[3].lines[LiqBase + 5][2] \in Placeholders

\* Every field that is present has the type the data model gives it (the
\* scalar fields, which are only printed, may have any type).
WellTyped(d) ==
  /\ d.t = "obj"
  /\ DOMAIN d.o # {}
  /\ ~Missing(d, "token") => d.o["token"].t = "obj"
  /\ ~Missing(d, "liquidity") => d.o["liquidity"].t = "obj"
  /\ ~Missing(d, "supply") =>
       /\ d.o["supply"].t = "obj"
       /\ \A k \in {"dead_wallet_pct", "top10_pct"} \cap DOMAIN d.o["supply"].o :
            d.o["supply"].o[k].t = "num"
  /\ ~Missing(d, "factors") =>
       /\ d.o["factors"].t = "list"
       /\ \A i \in 1..Len(d.o["factors"].l) :
            LET f == d.o["factors"].l[i]
            IN /\ f.t = "obj"
               /\ ~Missing(f, "impact") => f.o["impact"].t = "num"
               /\ ~Missing(f, "evidence") =>
                    /\ f.o["evidence"].t = "list"
                    /\ \A j \in 1..Len(f.o["evidence"].l) : f.o["evidence"].l[j].t = "str"

(***************************************************************************)
(* C9 amended: in the formatted reply every missing field is rendered as   *)
(* '?' or the em dash, except a missing lp_locked_pct, which is rendered   *)
(* as 0; the block of a missing or empty liquidity or supply object is     *)
(* left out; and missing fields never raise: a non-empty result object     *)
(* whose present fields are well typed always gets the formatted reply.    *)
(***************************************************************************)
C9_MissingRendered ==
  /\ FormattedReplySent =>
       /\ PlaceholdersForMissing
       /\ (Shown("liquidity") /\ Missing(data.o["liquidity"], "lp_locked_pct")) =>
            log[3].lines[LiqBase + 5][2] = "0"
       /\ Len(log[3].lines) = SupplyBase + (IF Shown("supply") THEN 5 ELSE 0)
  /\ (pc = "done" /\ TextTurn /\ Parsed200 /\ WellTyped(resp.body)) => FormattedReplySent

C9_Witness ==
  /\ FormattedReplySent
  /\ data = With(BaseData, "liquidity", Restrict(FullLiq, {"dex"}))
  /\ log[3].lines[13] = <<"LP locked: ", "0", "% via ", "--">>

(***************************************************************************)
(* C10: without a credential main() fails before the application is built: *)
(* no handler is registered, polling never starts and no event is ever     *)
(* handled or replied to.  With a credential the handlers are registered   *)
(* before polling starts, and the running process accepts events and stays *)
(* running until it is terminated from outside.                            *)
(***************************************************************************)
NoCredential == TOKEN = NONE \/ TOKEN = ""

C10_State ==
  /\ NoCredential =>
       /\ phase \in {"boot", "failed"}
       /\ handlers = {}
       /\ pc = "idle"
       /\ event = NoEvent
       /\ log = <<>>
  /\ (~NoCredential /\ phase \in {"registered", "running", "terminated"}) =>
       MainHandlers \subseteq handlers
  /\ (phase = "running" /\ pc = "idle") => ENABLED (\E e \in Events : Dispatch(e))

C10_Step ==
  /\ phase = "failed" => phase' = "failed"
  /\ phase = "running" => (phase' = "running" \/ (phase' = "terminated" /\ Terminate))

C10_Startup == []C10_State /\ [][C10_Step]_vars

C10_Witness ==
  /\ TOKEN = ""
  /\ phase = "failed"
  /\ handlers = {}

====
